---- MODULE Spec2Model ----
(***************************************************************************)
(* Wallet ledger of wallet_service: WalletService.transfer_funds,          *)
(* WalletService.process_successful_deposit and                            *)
(* WalletService.initiate_deposit (src/apps/wallet/services.py) running as *)
(* concurrent requests against the database configured in                  *)
(* src/config/settings.py.                                                 *)
(*                                                                         *)
(* The database is django.db.backends.sqlite3.  On that backend            *)
(* select_for_update() adds no FOR UPDATE clause and takes no row lock;    *)
(* what isolates transactions is SQLite's database lock:                   *)
(*   - the first read of a transaction takes the SHARED lock and keeps it  *)
(*     until the transaction ends; it waits while a committer holds        *)
(*     PENDING;                                                            *)
(*   - the first write takes RESERVED; a transaction that already holds    *)
(*     SHARED and finds RESERVED taken gets "database is locked"           *)
(*     (OperationalError) at once, one that holds nothing waits;           *)
(*   - COMMIT of a writer takes PENDING and waits until every other        *)
(*     SHARED lock is gone, then writes.                                   *)
(* Waits are modelled as blocking (the busy timeout does not expire).      *)
(* The rows a transaction reads with select_for_update() are recorded in   *)
(* forUpdate, in the order the code requests them.                         *)
(***************************************************************************)
EXTENDS Integers, Sequences, FiniteSets, TLC

\* ------------------------------------------------------------------ bounds
\* how many distinct references generate_transaction_reference() can return
NumRefs == 2

\* the most rows the ledger holds where the transaction history is checked
MaxRows == 53

\* the most rows the api_keys table holds, and the last instant of the clock
MaxKeys == 7
MaxNow == 1

\* the largest balance, of either sign, where Wallet.credit and Wallet.debit are called
\* with any amount
MaxBalance == 3

Users == {1, 2}
Procs == {"p1", "p2"}
\* the references generate_transaction_reference() can return
Refs == 1..NumRefs
\* the reference of the deposit that is confirmed before the model starts
SeedRef == 0
\* the value of a field that holds no reference
Null == -1
\* amounts a caller can ask to transfer, and to deposit
TransferAmounts == {-1, 0, 1, 2}
DepositAmounts == {0, 2}
\* wallet numbers a caller can send: a profile's number, or 0 that matches none
WalletNumbers == {0} \cup Users

VARIABLES
    wallets,       \* committed wallets table: owner -> balance (domain: owners with a row)
    transactions,  \* committed transactions table: set of rows
    credited,      \* history: per deposit reference, the total committed credit made for it
    api_keys,      \* committed api_keys table: id -> row
    now,           \* the clock that timezone.now() reads
    pc,            \* per request: position in its handler
    op,            \* per request: the call and its arguments
    loc,           \* per request: local variables of the handler
    lock,          \* per request: SQLite lock its connection holds
    work,          \* per request: uncommitted state of its open write transaction
    forUpdate,     \* per request: wallet rows read with select_for_update(), in order
    result         \* per request: how the call ended

vars ==
    <<wallets, transactions, credited, api_keys, now,
      pc, op, loc, lock, work, forUpdate, result>>

\* ------------------------------------------------------------------ data
\* a webhook request: the x-paystack-signature header (<<>> when missing or empty) and
\* the fields of the body that the handler reads
NoHook == [signature |-> <<>>, event |-> "", status |-> "", reference |-> Null]

NoOp == [kind |-> "none", user |-> 0, wn |-> 0, amount |-> 0, ref |-> Null, hook |-> NoHook]
NoLoc == [sbal |-> 0, recipient |-> 0, rbal |-> 0, reference |-> Null,
          tstatus |-> "none", tamount |-> 0, tuser |-> 0, page |-> <<>>]
NoWork == [wallets |-> <<>>, transactions |-> {}, credited |-> <<>>, api_keys |-> <<>>]

\* UserProfile.wallet_number is unique per user: user u has wallet number u
ProfileByWalletNumber(wn) == IF wn \in Users THEN wn ELSE 0

\* a reference is the generated primary string plus the suffix of the recipient half
Primary(r) == <<r, "">>
Recv(r) == <<r, "-RECV">>

Committed ==
    [wallets |-> wallets, transactions |-> transactions, credited |-> credited,
     api_keys |-> api_keys]

\* what the connection of p reads: its own uncommitted writes, else the committed state
View(p) == IF lock[p] \in {"reserved", "pending"} THEN work[p] ELSE Committed

\* generate_transaction_reference() returns "TXN-" and 16 hex digits of a uuid4.  The
\* program only compares references for equality, so the model tells a generated
\* reference apart by what it can equal: one that a row or a request already carries
\* (a collision), or the first one that nothing carries (a fresh one).
Known(rows) == {t.reference[1] : t \in rows} \cup {op[q].ref : q \in Procs}

generate_transaction_reference(rows) ==
    {r \in Refs : r \in Known(rows) \/ \A x \in 1..(r - 1) : x \in Known(rows)}

\* ------------------------------------------------------------------ Wallet model
\* a credit that stores the amount in place of adding it
creditAssign(balance, amount) == amount

\* Wallet.credit
credit(balance, amount) == balance + amount

\* a debit that does not look at the balance
debitUnchecked(balance, amount) == [ok |-> TRUE, balance |-> balance - amount]

\* Wallet.debit: [ok, balance]
debit(balance, amount) ==
    IF balance < amount THEN [ok |-> FALSE, balance |-> balance]
    ELSE [ok |-> TRUE, balance |-> balance - amount]

\* a transition that is not saved
mark_successUnsaved(t) == t

\* a transition that also rewrites the amount
mark_successRewrites(t) == [t EXCEPT !.status = "success", !.amount = 0]

\* Transaction.mark_success
mark_success(t) == [t EXCEPT !.status = "success"]

\* Transaction.mark_failed
mark_failed(t) == [t EXCEPT !.status = "failed"]

\* a table without unique constraints
DuplicateNever(rows, t) == FALSE

\* Transaction.objects.create under the unique constraints on reference and
\* paystack_reference: TRUE when the insert violates one of them
Duplicate(rows, t) ==
    \E x \in rows :
        \/ x.reference = t.reference
        \/ (t.paystack_reference # Null /\ x.paystack_reference = t.paystack_reference)

\* ------------------------------------------------------------------ SQLite locks
\* another connection holds the write lock
Busy(p) == \E q \in Procs \ {p} : lock[q] \in {"reserved", "pending"}

\* a committer holding PENDING keeps new readers out
ReadBlocked(p) == lock[p] = "none" /\ \E q \in Procs \ {p} : lock[q] = "pending"

\* a database that lets a reader write beside another writer
WriteOutcomeNoRefusal(p) ==
    IF lock[p] \in {"reserved", "pending"} THEN "granted"
    ELSE IF ~Busy(p) THEN "granted"
    ELSE IF lock[p] = "shared" THEN "granted"
    ELSE "wait"

\* a database that makes a reader wait for the write lock
WriteOutcomeWaits(p) ==
    IF lock[p] \in {"reserved", "pending"} THEN "granted"
    ELSE IF ~Busy(p) THEN "granted"
    ELSE "wait"

\* what a connection gets when it asks for the write lock: it has it already; or it
\* holds SHARED and the write lock is taken: refused at once ("database is locked");
\* or it holds nothing and waits for the writer to finish; or it is granted
WriteOutcome(p) ==
    IF lock[p] \in {"reserved", "pending"} THEN "granted"
    ELSE IF ~Busy(p) THEN "granted"
    ELSE IF lock[p] = "shared" THEN "refused"
    ELSE "wait"

\* the deposit of 2 that user 1 made, and the gateway confirmed, before the model starts
SeedRecord ==
    [reference |-> Primary(SeedRef), user |-> 1, transaction_type |-> "deposit",
     amount |-> 2, status |-> "success", recipient |-> 0, paystack_reference |-> SeedRef]

\* user 1 has a wallet holding the confirmed seed deposit; user 2 has a profile and no
\* wallet row yet; no request is running
Init ==
    /\ wallets = [u \in {1} |-> SeedRecord.amount]
    /\ transactions = {SeedRecord}
    /\ credited = [r \in {SeedRef} \cup Refs |-> IF r = SeedRef THEN SeedRecord.amount ELSE 0]
    /\ api_keys = <<>>
    /\ now = 0
    /\ pc = [p \in Procs |-> "idle"]
    /\ op = [p \in Procs |-> NoOp]
    /\ loc = [p \in Procs |-> NoLoc]
    /\ lock = [p \in Procs |-> "none"]
    /\ work = [p \in Procs |-> NoWork]
    /\ forUpdate = [p \in Procs |-> <<>>]
    /\ result = [p \in Procs |-> "none"]

\* ------------------------------------------------------------------ control
\* a handler outside transaction.atomic: what it wrote before the exception stays
RollbackKeeps(p) ==
    /\ lock' = [lock EXCEPT ![p] = "none"]
    /\ work' = [work EXCEPT ![p] = NoWork]
    /\ IF lock[p] \in {"reserved", "pending"}
       THEN /\ wallets' = work[p].wallets
            /\ transactions' = work[p].transactions
            /\ credited' = work[p].credited
            /\ api_keys' = work[p].api_keys
            /\ UNCHANGED now
       ELSE UNCHANGED <<wallets, transactions, credited, api_keys, now>>

\* a rollback that leaves the connection's lock in place
RollbackHolds(p) ==
    /\ work' = [work EXCEPT ![p] = NoWork]
    /\ UNCHANGED <<wallets, transactions, credited, api_keys, now, lock>>

\* transaction.atomic on an exception: roll back, release the lock, propagate
Rollback(p) ==
    /\ lock' = [lock EXCEPT ![p] = "none"]
    /\ work' = [work EXCEPT ![p] = NoWork]
    /\ UNCHANGED <<wallets, transactions, credited, api_keys, now>>

\* the call of the given kind ends with res; what is kept of it is its kind, the
\* reference it was given and res
Finish(p, kind, res) ==
    /\ pc' = [pc EXCEPT ![p] = "done"]
    /\ result' = [result EXCEPT ![p] = res]
    /\ op' = [op EXCEPT ![p] = [NoOp EXCEPT !.kind = kind, !.ref = op[p].ref]]
    /\ loc' = [loc EXCEPT ![p] = NoLoc]
    /\ forUpdate' = [forUpdate EXCEPT ![p] = <<>>]

Raise(p, kind, exc) == Rollback(p) /\ Finish(p, kind, exc)

\* the handler goes on to next with arguments o, locals l and select_for_update() rows fu
Goto(p, next, o, l, fu) ==
    /\ pc' = [pc EXCEPT ![p] = next]
    /\ op' = [op EXCEPT ![p] = o]
    /\ loc' = [loc EXCEPT ![p] = l]
    /\ forUpdate' = [forUpdate EXCEPT ![p] = fu]
    /\ UNCHANGED result

\* a step that touches neither the database nor a lock
Local == UNCHANGED <<wallets, transactions, credited, api_keys, now, lock, work>>

\* a read that takes no lock
ReadNoLock(p) ==
    UNCHANGED <<wallets, transactions, credited, api_keys, now, work, lock>>

\* a read inside a transaction: takes SHARED when the connection holds nothing
Read(p) ==
    /\ lock' = [lock EXCEPT ![p] = IF @ = "none" THEN "shared" ELSE @]
    /\ UNCHANGED <<wallets, transactions, credited, api_keys, now, work>>

\* a write of the new database state db, then go on to next
Write(p, db, next, o, l, fu) ==
    /\ WriteOutcome(p) # "wait"
    /\ IF WriteOutcome(p) = "refused"
       THEN Raise(p, o.kind, "OperationalError")
       ELSE /\ lock' = [lock EXCEPT ![p] = "reserved"]
            /\ work' = [work EXCEPT ![p] = db]
            /\ Goto(p, next, o, l, fu)
            /\ UNCHANGED <<wallets, transactions, credited, api_keys, now>>

\* the wallets table with a new row of balance 0 for owner u
WithWallet(w, u) == [x \in DOMAIN w \cup {u} |-> IF x = u THEN 0 ELSE w[x]]

\* ------------------------------------------------------------------ constants.py
MIN_DEPOSIT_AMOUNT == 100
MAX_DEPOSIT_AMOUNT == 100000000
MIN_TRANSFER_AMOUNT == 100
MAX_TRANSFER_AMOUNT == 100000000

\* validate_deposit_amount: the exception it raises, or "none"; no code calls it
validate_deposit_amount(amount) ==
    IF amount < MIN_DEPOSIT_AMOUNT \/ amount > MAX_DEPOSIT_AMOUNT THEN "ValueError" ELSE "none"

\* validate_transfer_amount: the exception it raises, or "none"; no code calls it
validate_transfer_amount(amount) ==
    IF amount < MIN_TRANSFER_AMOUNT \/ amount > MAX_TRANSFER_AMOUNT THEN "ValueError" ELSE "none"

\* ------------------------------------------------------------------ transfer_funds
\* no check of the amount
InvalidAmountUnchecked(amount) == FALSE

\* a check that lets 0 through
InvalidAmountNegativeOnly(amount) == amount < 0

\* if amount <= 0: raise InvalidAmountException
InvalidAmount(amount) == amount <= 0

\* the request arrives (each argument is drawn where the handler first reads it)
TransferStart(p) ==
    /\ pc[p] = "idle"
    /\ \E a \in TransferAmounts :
         Goto(p, "t_sender", [NoOp EXCEPT !.kind = "transfer", !.amount = a], NoLoc, <<>>)
    /\ Local

\* if amount <= 0: raise InvalidAmountException
\* sender_wallet = Wallet.objects.select_for_update().get(user=sender)
TransferSender(p) ==
    /\ pc[p] = "t_sender"
    /\ IF InvalidAmount(op[p].amount)
       THEN Raise(p, "transfer", "InvalidAmountException")
       ELSE /\ ~ReadBlocked(p)
            /\ \E s \in Users :
                 IF s \in DOMAIN View(p).wallets
                 THEN /\ Read(p)
                      /\ \E wn \in WalletNumbers :
                           Goto(p, "t_checks", [op[p] EXCEPT !.user = s, !.wn = wn],
                                [loc[p] EXCEPT !.sbal = View(p).wallets[s]],
                                Append(forUpdate[p], <<"wallet", s>>))
                 ELSE Raise(p, "transfer", "WalletNotFoundException")

\* the checks without the one of the balance
TransferErrorNoBalance(sender, balance, wn, amount) ==
    IF ProfileByWalletNumber(wn) = 0 THEN "WalletNotFoundException"
    ELSE IF sender = ProfileByWalletNumber(wn)
         THEN "InvalidAmountException: Cannot transfer to yourself"
    ELSE "none"

\* the checks between the read of the sender's wallet and that of the recipient's, in
\* the order of the code: balance, recipient profile by wallet number, self-transfer
TransferError(sender, balance, wn, amount) ==
    IF balance < amount THEN "InsufficientBalanceException"
    ELSE IF ProfileByWalletNumber(wn) = 0 THEN "WalletNotFoundException"
    ELSE IF sender = ProfileByWalletNumber(wn)
         THEN "InvalidAmountException: Cannot transfer to yourself"
    ELSE "none"

\* the checks, then
\* recipient_wallet, _ = Wallet.objects.select_for_update().get_or_create(user=recipient)
TransferChecks(p) ==
    /\ pc[p] = "t_checks"
    /\ LET err == TransferError(op[p].user, loc[p].sbal, op[p].wn, op[p].amount)
           rc == ProfileByWalletNumber(op[p].wn)
           v == View(p)
           fu == Append(forUpdate[p], <<"wallet", rc>>)
       IN IF err # "none"
          THEN Raise(p, "transfer", err)
          ELSE IF rc \in DOMAIN v.wallets
          THEN /\ Goto(p, "t_debit", op[p],
                       [loc[p] EXCEPT !.recipient = rc, !.rbal = v.wallets[rc]], fu)
               /\ Local
          ELSE Write(p, [v EXCEPT !.wallets = WithWallet(@, rc)], "t_debit", op[p],
                     [loc[p] EXCEPT !.recipient = rc, !.rbal = 0], fu)

\* sender_wallet.debit(amount)
TransferDebit(p) ==
    /\ pc[p] = "t_debit"
    /\ LET d == debit(loc[p].sbal, op[p].amount)
           v == View(p)
       IN IF ~d.ok
          THEN Raise(p, "transfer", "ValueError")
          ELSE Write(p, [v EXCEPT !.wallets[op[p].user] = d.balance], "t_credit", op[p],
                     [loc[p] EXCEPT !.sbal = d.balance], forUpdate[p])

\* a sender's record that waits for a confirmation
SenderRecordPending(p, r) ==
    [reference |-> Primary(r), user |-> op[p].user,
     transaction_type |-> "transfer", amount |-> op[p].amount, status |-> "pending",
     recipient |-> loc[p].recipient, paystack_reference |-> Null]

SenderRecord(p, r) ==
    [reference |-> Primary(r), user |-> op[p].user,
     transaction_type |-> "transfer", amount |-> op[p].amount, status |-> "success",
     recipient |-> loc[p].recipient, paystack_reference |-> Null]

\* a second record that is the sender's again
RecipientRecordOwnSide(p, r) ==
    [reference |-> Recv(r), user |-> op[p].user,
     transaction_type |-> "transfer", amount |-> op[p].amount, status |-> "success",
     recipient |-> loc[p].recipient, paystack_reference |-> Null]

RecipientRecord(p, r) ==
    [reference |-> Recv(r), user |-> loc[p].recipient,
     transaction_type |-> "transfer", amount |-> op[p].amount, status |-> "success",
     recipient |-> op[p].user, paystack_reference |-> Null]

\* recipient_wallet.credit(amount), then the two Transaction.objects.create calls with
\* reference = generate_transaction_reference() (any reference: nothing reads it earlier)
TransferCredit(p) ==
    /\ pc[p] = "t_credit"
    /\ \E r \in generate_transaction_reference(View(p).transactions) :
         LET b == credit(loc[p].rbal, op[p].amount)
             v1 == [View(p) EXCEPT !.wallets[loc[p].recipient] = b]
             v2 == [v1 EXCEPT !.transactions = @ \cup {SenderRecord(p, r)}]
             v3 == [v2 EXCEPT !.transactions = @ \cup {RecipientRecord(p, r)}]
         IN IF Duplicate(v1.transactions, SenderRecord(p, r))
               \/ Duplicate(v2.transactions, RecipientRecord(p, r))
            THEN Raise(p, "transfer", "IntegrityError")
            ELSE Write(p, v3, "commit", op[p],
                       [loc[p] EXCEPT !.rbal = b, !.reference = r], forUpdate[p])

\* ------------------------------------------------------------------ initiate_deposit
\* the request arrives (each argument is drawn where the handler first reads it)
DepositStart(p) ==
    /\ pc[p] = "idle"
    /\ \E a \in DepositAmounts :
         Goto(p, "i_wallet", [NoOp EXCEPT !.kind = "deposit", !.amount = a], NoLoc, <<>>)
    /\ Local

\* if amount <= 0: raise InvalidAmountException
\* get_or_create_wallet, the lookup: Wallet.objects.get(user=user) in autocommit mode
InitiateWallet(p) ==
    /\ pc[p] = "i_wallet"
    /\ IF InvalidAmount(op[p].amount)
       THEN Raise(p, "deposit", "InvalidAmountException")
       ELSE /\ ~ReadBlocked(p)
            /\ \E u \in Users :
                 Goto(p, IF u \in DOMAIN wallets THEN "i_await" ELSE "i_wcreate",
                      [op[p] EXCEPT !.user = u], loc[p], <<>>)
            /\ Local

\* an insert whose transaction stays open over the gateway call
InitiateWalletCreateHolds(p) ==
    /\ pc[p] = "i_wcreate"
    /\ WriteOutcome(p) # "wait"
    /\ IF op[p].user \in DOMAIN wallets
       THEN Goto(p, "i_await", op[p], loc[p], <<>>) /\ Local
       ELSE Write(p, [Committed EXCEPT !.wallets = WithWallet(@, op[p].user)], "i_await",
                  op[p], loc[p], <<>>)

\* an insert that no constraint on the owner stops
InitiateWalletCreateAlways(p) ==
    /\ pc[p] = "i_wcreate"
    /\ Write(p, [Committed EXCEPT !.wallets = WithWallet(@, op[p].user)], "i_wcommit",
             op[p], loc[p], <<>>)

\* get_or_create_wallet, the insert: the unique constraint on the owner decides;
\* on IntegrityError get_or_create returns the row that is there
InitiateWalletCreate(p) ==
    /\ pc[p] = "i_wcreate"
    /\ WriteOutcome(p) # "wait"
    /\ IF op[p].user \in DOMAIN wallets
       THEN Goto(p, "i_await", op[p], loc[p], <<>>) /\ Local
       ELSE Write(p, [Committed EXCEPT !.wallets = WithWallet(@, op[p].user)], "i_wcommit",
                  op[p], loc[p], <<>>)

\* paystack.initialize_transaction(email, amount, reference) raises PaystackAPIException
InitiateFails(p) ==
    /\ pc[p] = "i_await"
    /\ Raise(p, "deposit", "PaystackAPIException")

\* a deposit row written without the gateway's answer
DepositRecordNoHandle(p, r) ==
    [reference |-> Primary(r), user |-> op[p].user,
     transaction_type |-> "deposit", amount |-> op[p].amount, status |-> "pending",
     recipient |-> 0, paystack_reference |-> Null]

DepositRecord(p, r) ==
    [reference |-> Primary(r), user |-> op[p].user,
     transaction_type |-> "deposit", amount |-> op[p].amount, status |-> "pending",
     recipient |-> 0, paystack_reference |-> r]

\* an initiation that credits the wallet as it records the deposit
InitiateCreateCredits(p) ==
    /\ pc[p] = "i_await"
    /\ WriteOutcome(p) # "wait"
    /\ \E r \in generate_transaction_reference(transactions) :
         IF Duplicate(transactions, DepositRecord(p, r))
         THEN Raise(p, "deposit", "IntegrityError")
         ELSE Write(p, [Committed EXCEPT !.transactions = @ \cup {DepositRecord(p, r)},
                                         !.wallets[op[p].user] = credit(@, op[p].amount)],
                    "commit", op[p], [loc[p] EXCEPT !.reference = r], <<>>)

\* paystack.initialize_transaction(email, amount, reference) returns the gateway's data;
\* Transaction.objects.create(user=user, reference=reference, status="pending", ...)
\* with the reference generated before the gateway call and the gateway's reference,
\* which is the one it was sent
InitiateCreate(p) ==
    /\ pc[p] = "i_await"
    /\ WriteOutcome(p) # "wait"
    /\ \E r \in generate_transaction_reference(transactions) :
         IF Duplicate(transactions, DepositRecord(p, r))
         THEN Raise(p, "deposit", "IntegrityError")
         ELSE Write(p, [Committed EXCEPT !.transactions = @ \cup {DepositRecord(p, r)}],
                    "commit", op[p], [loc[p] EXCEPT !.reference = r], <<>>)

\* ------------------------------------------------------------------ process_successful_deposit
\* the webhook hands over a reference
ConfirmStart(p) ==
    /\ pc[p] = "idle"
    /\ \E r \in {SeedRef} \cup generate_transaction_reference(transactions) :
         Goto(p, "d_txn", [NoOp EXCEPT !.kind = "confirm", !.ref = r], NoLoc, <<>>)
    /\ Local

\* a lookup by reference alone, of whatever type
DepositRowsAnyType(rows, r) == {t \in rows : t.reference = Primary(r)}

DepositRows(rows, r) ==
    {t \in rows : t.reference = Primary(r) /\ t.transaction_type = "deposit"}

\* no check of the status
AlreadyProcessedNever(status) == FALSE

\* if txn.status == "success": return txn
AlreadyProcessed(status) == status = "success"

\* txn = Transaction.objects.select_for_update().get(reference=..., transaction_type="deposit")
\* if txn.status == "success": return txn
\* wallet = Wallet.objects.select_for_update().get(user=txn.user)
ConfirmLookup(p) ==
    /\ pc[p] = "d_txn"
    /\ ~ReadBlocked(p)
    /\ LET found == DepositRows(View(p).transactions, op[p].ref)
       IN IF found = {}
          THEN Raise(p, "confirm", "DuplicateTransactionException")
          ELSE \E t \in found :
                 IF AlreadyProcessed(t.status)
                 THEN Rollback(p) /\ Finish(p, "confirm", "ok")
                 ELSE IF t.user \notin DOMAIN View(p).wallets
                 THEN Raise(p, "confirm", "DoesNotExist")
                 ELSE /\ Read(p)
                      /\ Goto(p, "d_credit", op[p],
                              [loc[p] EXCEPT !.tstatus = t.status, !.tamount = t.amount,
                                  !.tuser = t.user, !.rbal = View(p).wallets[t.user]],
                              <<(<<"transaction", op[p].ref>>), (<<"wallet", t.user>>)>>)

\* wallet.credit(txn.amount);  txn.mark_success()
ConfirmCredit(p) ==
    /\ pc[p] = "d_credit"
    /\ LET b == credit(loc[p].rbal, loc[p].tamount)
           v == View(p)
       IN Write(p, [v EXCEPT !.wallets[loc[p].tuser] = b,
                             !.credited[op[p].ref] = @ + loc[p].tamount,
                             !.transactions =
                                {IF t \in DepositRows(v.transactions, op[p].ref)
                                 THEN mark_success(t) ELSE t : t \in @}],
                "commit", op[p], [loc[p] EXCEPT !.rbal = b], forUpdate[p])

\* ------------------------------------------------------------------ commit
\* COMMIT of a writer while other connections still read: take PENDING and wait
CommitWait(p) ==
    /\ pc[p] \in {"commit", "i_wcommit"}
    /\ lock[p] = "reserved"
    /\ \E q \in Procs \ {p} : lock[q] = "shared"
    /\ lock' = [lock EXCEPT ![p] = "pending"]
    /\ UNCHANGED <<wallets, transactions, credited, api_keys, now,
                   pc, op, loc, work, forUpdate, result>>

\* a COMMIT that does not wait for the readers to finish
CommitNoWait(p) ==
    /\ pc[p] \in {"commit", "i_wcommit"}
    /\ lock[p] \in {"reserved", "pending"}
    /\ wallets' = work[p].wallets
    /\ transactions' = work[p].transactions
    /\ credited' = work[p].credited
    /\ api_keys' = work[p].api_keys
    /\ UNCHANGED now
    /\ lock' = [lock EXCEPT ![p] = "none"]
    /\ work' = [work EXCEPT ![p] = NoWork]
    /\ IF pc[p] = "i_wcommit"
       THEN Goto(p, "i_await", op[p], loc[p], <<>>)
       ELSE Finish(p, op[p].kind, "ok")

\* COMMIT: the writes of the transaction become the committed state
Commit(p) ==
    /\ pc[p] \in {"commit", "i_wcommit"}
    /\ lock[p] \in {"reserved", "pending"}
    /\ ~\E q \in Procs \ {p} : lock[q] = "shared"
    /\ wallets' = work[p].wallets
    /\ transactions' = work[p].transactions
    /\ credited' = work[p].credited
    /\ api_keys' = work[p].api_keys
    /\ UNCHANGED now
    /\ lock' = [lock EXCEPT ![p] = "none"]
    /\ work' = [work EXCEPT ![p] = NoWork]
    /\ IF pc[p] = "i_wcommit"
       THEN Goto(p, "i_await", op[p], loc[p], <<>>)
       ELSE Finish(p, op[p].kind, "ok")

\* the response is sent; the request is over
Return(p) ==
    /\ pc[p] = "done"
    /\ pc' = [pc EXCEPT ![p] = "idle"]
    /\ op' = [op EXCEPT ![p] = NoOp]
    /\ result' = [result EXCEPT ![p] = "none"]
    /\ UNCHANGED <<wallets, transactions, credited, api_keys, now, loc, lock, work, forUpdate>>

Next ==
    \E p \in Procs :
        \/ TransferStart(p)
        \/ TransferSender(p)
        \/ TransferChecks(p)
        \/ TransferDebit(p)
        \/ TransferCredit(p)
        \/ DepositStart(p)
        \/ InitiateWallet(p)
        \/ InitiateWalletCreate(p)
        \/ InitiateFails(p)
        \/ InitiateCreate(p)
        \/ ConfirmStart(p)
        \/ ConfirmLookup(p)
        \/ ConfirmCredit(p)
        \/ CommitWait(p)
        \/ Commit(p)
        \/ Return(p)

Spec == Init /\ [][Next]_vars

\* a running request takes its next step, its COMMIT included, whenever it stays able
\* to: each request has its own thread and its own database connection
Step(p) ==
    \/ TransferSender(p)
    \/ TransferChecks(p)
    \/ TransferDebit(p)
    \/ TransferCredit(p)
    \/ InitiateWallet(p)
    \/ InitiateWalletCreate(p)
    \/ InitiateFails(p)
    \/ InitiateCreate(p)
    \/ ConfirmLookup(p)
    \/ ConfirmCredit(p)
    \/ CommitWait(p)
    \/ Commit(p)

FairSpec == Spec /\ \A p \in Procs : WF_vars(Step(p))

\* ------------------------------------------------------------------ paystack_webhook
\* settings.PAYSTACK_SECRET_KEY, and the keys a sender of webhooks can hold
PAYSTACK_SECRET_KEY == "sk_paystack"
Secrets == {PAYSTACK_SECRET_KEY, "sk_other"}

\* hmac.new(secret, body, hashlib.sha512).hexdigest(), as a function that gives two
\* keys, and two bodies, different digests
hmac_sha512(secret, body) == <<secret, body>>

\* the raw body, as far as the handler reads it
Body(h) == <<h.event, h.status, h.reference>>

\* a body the gateway signed and delivered earlier
ReplayedBody == <<"charge.success", "success", SeedRef>>

\* the webhooks that can arrive: any event, status and reference (known, unknown or
\* none), unsigned, signed with either key, or carrying the signature of the earlier body
Hooks ==
    {h \in [signature : {<<>>} \cup {hmac_sha512(k, b) :
                                       k \in Secrets,
                                       b \in {ReplayedBody} \cup
                                             ({"charge.success", "transfer.success"}
                                              \X {"success", "failed"}
                                              \X ({Null, SeedRef} \cup Refs))},
             event : {"charge.success", "transfer.success"},
             status : {"success", "failed"},
             reference : {Null, SeedRef} \cup generate_transaction_reference(transactions)] :
        h.signature \in {<<>>, hmac_sha512(PAYSTACK_SECRET_KEY, ReplayedBody)}
                          \cup {hmac_sha512(k, Body(h)) : k \in Secrets}}

\* a check that the header is there and nothing more
validate_signaturePresence(signature, body) ==
    IF signature = <<>> THEN "APIException: Missing signature" ELSE "valid"

\* PaystackWebhookValidator.validate_signature: the exception it raises, or "valid"
validate_signature(signature, body) ==
    IF signature = <<>> THEN "APIException: Missing signature"
    ELSE IF signature # hmac_sha512(PAYSTACK_SECRET_KEY, body)
         THEN "APIException: Invalid signature"
    ELSE "valid"

\* a handler that confirms whatever the status says
TriggersAnyStatus(h) == h.event = "charge.success" /\ h.reference # Null

\* if event == "charge.success": ... if status == "success" and reference:
Triggers(h) == h.event = "charge.success" /\ h.status = "success" /\ h.reference # Null

\* an answer that is an error whatever happened
WebhookResponseError(res) == [code |-> 400, status |-> FALSE]

\* what paystack_webhook answers: {"status": True} when nothing was raised, and
\* Response({"status": False, "error": ...}, status=400) on any exception
WebhookResponse(res) ==
    IF res = "ok" THEN [code |-> 200, status |-> TRUE] ELSE [code |-> 400, status |-> FALSE]

\* a webhook arrives
WebhookReceive(p) ==
    /\ pc[p] = "idle"
    /\ \E h \in Hooks :
         Goto(p, "w_recv", [NoOp EXCEPT !.kind = "webhook", !.hook = h], NoLoc, <<>>)
    /\ Local

\* PaystackWebhookValidator.validate_signature(request), then the parsed body decides
\* whether process_successful_deposit(reference) is called
WebhookHandle(p) ==
    /\ pc[p] = "w_recv"
    /\ LET h == op[p].hook
           v == validate_signature(h.signature, Body(h))
       IN IF v # "valid"
          THEN Raise(p, "webhook", v)
          ELSE IF ~Triggers(h)
          THEN Finish(p, "webhook", "ok") /\ Local
          ELSE /\ Goto(p, "d_txn", [NoOp EXCEPT !.kind = "confirm", !.ref = h.reference],
                       NoLoc, <<>>)
               /\ Local

\* ------------------------------------------------------------------ deposit_status
\* an authenticated caller asks for the status of a reference
StatusStart(p) ==
    /\ pc[p] = "idle"
    /\ \E caller \in Users, r \in {SeedRef} \cup generate_transaction_reference(transactions) :
         Goto(p, "s_read", [NoOp EXCEPT !.kind = "status", !.user = caller, !.ref = r],
              NoLoc, <<>>)
    /\ Local

\* WalletService.get_transaction_by_reference: Transaction.objects.get(reference=reference)
get_transaction_by_reference(rows, reference) ==
    {t \in rows : t.reference = Primary(reference)}

\* no check of the owner
OwnsAny(t, caller) == TRUE

\* if transaction.user.id != request.auth.id: ... "Transaction not found"
Owns(t, caller) == t.user = caller

\* the query ends with the answer res; status and amount are the fields of a 200 answer
StatusFinish(p, res, status, amount) ==
    /\ pc' = [pc EXCEPT ![p] = "done"]
    /\ result' = [result EXCEPT ![p] = res]
    /\ op' = [op EXCEPT ![p] = [NoOp EXCEPT !.kind = "status", !.user = op[p].user,
                                           !.ref = op[p].ref]]
    /\ loc' = [loc EXCEPT ![p] = [NoLoc EXCEPT !.tstatus = status, !.tamount = amount]]
    /\ forUpdate' = [forUpdate EXCEPT ![p] = <<>>]
    /\ Local

\* a status query that settles the deposit it finds pending
StatusReadSettles(p) ==
    /\ pc[p] = "s_read"
    /\ \A q \in Procs : lock[q] = "none"
    /\ pc' = [pc EXCEPT ![p] = "done"]
    /\ result' = [result EXCEPT ![p] = "200"]
    /\ transactions' = {IF t \in get_transaction_by_reference(transactions, op[p].ref)
                        THEN mark_success(t) ELSE t : t \in transactions}
    /\ UNCHANGED <<wallets, credited, api_keys, now, op, loc, lock, work, forUpdate>>

\* deposit_status: one read in autocommit mode, then the answer
StatusRead(p) ==
    /\ pc[p] = "s_read"
    /\ ~ReadBlocked(p)
    /\ LET found == get_transaction_by_reference(transactions, op[p].ref)
       IN IF found = {} \/ \E t \in found : ~Owns(t, op[p].user)
          THEN StatusFinish(p, "400: Transaction not found", "none", 0)
          ELSE \E t \in found : StatusFinish(p, "200", t.status, t.amount)

\* ------------------------------------------------------------------ Transaction.mark_failed
\* the transition pending -> failed of a deposit: Transaction.mark_failed, or the status
\* field of TransactionAdmin, saved in autocommit mode when no connection holds a lock
MarkFailed(r) ==
    /\ \A q \in Procs : lock[q] = "none"
    /\ \E t \in DepositRows(transactions, r) :
         /\ t.status = "pending"
         /\ transactions' = (transactions \ {t}) \cup {mark_failed(t)}
    /\ UNCHANGED <<wallets, credited, api_keys, now, pc, op, loc, lock, work, forUpdate, result>>

\* ------------------------------------------------------------------ the confirmation side
\* the deposit of 2 that user 2 has initiated and the gateway has not confirmed yet
AwaitedRecord ==
    [reference |-> Primary(1), user |-> 2, transaction_type |-> "deposit",
     amount |-> 2, status |-> "pending", recipient |-> 0, paystack_reference |-> 1]

\* the state after user 2 initiated that deposit: both users have a wallet, the seed
\* deposit is confirmed, the new one is pending; no request is running
InitGateway ==
    /\ wallets = [u \in Users |-> IF u = 1 THEN SeedRecord.amount ELSE 0]
    /\ transactions = {SeedRecord, AwaitedRecord}
    /\ credited = [r \in {SeedRef} \cup Refs |-> IF r = SeedRef THEN SeedRecord.amount ELSE 0]
    /\ api_keys = <<>>
    /\ now = 0
    /\ pc = [p \in Procs |-> "idle"]
    /\ op = [p \in Procs |-> NoOp]
    /\ loc = [p \in Procs |-> NoLoc]
    /\ lock = [p \in Procs |-> "none"]
    /\ work = [p \in Procs |-> NoWork]
    /\ forUpdate = [p \in Procs |-> <<>>]
    /\ result = [p \in Procs |-> "none"]

\* webhooks of any kind, status queries and mark_failed around a deposit that awaits
\* its confirmation
NextGateway ==
    \/ \E p \in Procs :
        \/ WebhookReceive(p)
        \/ WebhookHandle(p)
        \/ ConfirmLookup(p)
        \/ ConfirmCredit(p)
        \/ CommitWait(p)
        \/ Commit(p)
        \/ StatusStart(p)
        \/ StatusRead(p)
        \/ Return(p)
    \/ \E r \in Refs : MarkFailed(r)

GatewaySpec == InitGateway /\ [][NextGateway]_vars

\* ------------------------------------------------------------------ get_transaction_history
\* the slice [:50]
HistoryLimit == 50

\* the k-th row that was created, for user u: a deposit that awaits its confirmation.
\* created_at is auto_now_add, the time of the insert; inserts are serialised by the
\* write lock, so the k-th row carries the k-th instant
HistoryRow(k, u) ==
    [reference |-> Primary(k), user |-> u, transaction_type |-> "deposit",
     amount |-> 2, status |-> "pending", recipient |-> 0, paystack_reference |-> k,
     created_at |-> k]

\* Transaction.objects.filter(user=user)
filter_user(rows, user) == {t \in rows : t.user = user}

\* the row of rows that was created last
Latest(rows) == CHOOSE t \in rows : \A u \in rows : u.created_at <= t.created_at

\* .order_by("-created_at")
RECURSIVE order_by_created_at_desc(_)
order_by_created_at_desc(rows) ==
    IF rows = {} THEN <<>>
    ELSE <<Latest(rows)>> \o order_by_created_at_desc(rows \ {Latest(rows)})

\* a history without the slice
get_transaction_historyAll(rows, user) ==
    order_by_created_at_desc(filter_user(rows, user))

\* list(Transaction.objects.filter(user=user).order_by("-created_at")[:50])
get_transaction_history(rows, user) ==
    LET all == order_by_created_at_desc(filter_user(rows, user))
    IN SubSeq(all, 1, IF Len(all) < HistoryLimit THEN Len(all) ELSE HistoryLimit)

\* Transaction.objects.create by any operation: one more row, for either user
RecordCreated ==
    /\ Cardinality(transactions) < MaxRows
    /\ \A q \in Procs : lock[q] = "none"
    /\ \E u \in Users :
         transactions' = transactions \cup {HistoryRow(Cardinality(transactions) + 1, u)}
    /\ UNCHANGED <<wallets, credited, api_keys, now, pc, op, loc, lock, work, forUpdate, result>>

\* an authenticated caller asks for the history
HistoryStart(p) ==
    /\ pc[p] = "idle"
    /\ \E caller \in Users :
         Goto(p, "h_read", [NoOp EXCEPT !.kind = "history", !.user = caller], NoLoc, <<>>)
    /\ Local

\* get_transactions: one read in autocommit mode; the rows read are the answer
HistoryRead(p) ==
    /\ pc[p] = "h_read"
    /\ ~ReadBlocked(p)
    /\ pc' = [pc EXCEPT ![p] = "done"]
    /\ result' = [result EXCEPT ![p] = "200"]
    /\ op' = [op EXCEPT ![p] = [NoOp EXCEPT !.kind = "history", !.user = op[p].user]]
    /\ loc' = [loc EXCEPT ![p] =
                 [NoLoc EXCEPT !.page = get_transaction_history(transactions, op[p].user)]]
    /\ forUpdate' = [forUpdate EXCEPT ![p] = <<>>]
    /\ Local

\* user 1 has created one row less than the slice holds; both users have a wallet; no
\* request is running
InitHistory ==
    /\ wallets = [u \in Users |-> 0]
    /\ transactions = {HistoryRow(k, 1) : k \in 1..(HistoryLimit - 1)}
    /\ credited = [r \in {SeedRef} \cup Refs |-> 0]
    /\ api_keys = <<>>
    /\ now = 0
    /\ pc = [p \in Procs |-> "idle"]
    /\ op = [p \in Procs |-> NoOp]
    /\ loc = [p \in Procs |-> NoLoc]
    /\ lock = [p \in Procs |-> "none"]
    /\ work = [p \in Procs |-> NoWork]
    /\ forUpdate = [p \in Procs |-> <<>>]
    /\ result = [p \in Procs |-> "none"]

\* rows are created while the history is asked for
NextHistory ==
    \/ \E p \in Procs :
        \/ HistoryStart(p)
        \/ HistoryRead(p)
        \/ Return(p)
    \/ RecordCreated

HistorySpec == InitHistory /\ [][NextHistory]_vars

\* ------------------------------------------------------------------ APIKeyService
MAX_ACTIVE_KEYS == 5

\* the ids that requests name: that of an active key of user 1, that of the expired
\* one, and that of the row that is created next (no row's id until then)
KeyIds == {1, MAX_ACTIVE_KEYS, MAX_ACTIVE_KEYS + 1}

\* what parse_expiry_to_datetime adds to now: one unit of the clock

\* a row of user u that expires at instant e
KeyRow(u, e) == [user |-> u, expires_at |-> e, is_revoked |-> FALSE]

\* a key that is not expired within the instants of the clock
LongLived == MaxNow + 1

\* a count that sees no key
count_active_keysNone(keys, user, t) == 0

\* APIKeyService.count_active_keys: filter(user=user, is_revoked=False, expires_at__gt=now)
count_active_keys(keys, user, t) ==
    Cardinality({k \in DOMAIN keys :
                   keys[k].user = user /\ ~keys[k].is_revoked /\ keys[k].expires_at > t})

\* APIKey.is_expired: timezone.now() > self.expires_at
is_expired(row, t) == t > row.expires_at

\* APIKey.revoke: is_revoked = True, saved with update_fields is_revoked and updated_at
revoke(row) == [row EXCEPT !.is_revoked = TRUE]

\* the clock goes on
Tick ==
    /\ now < MaxNow
    /\ now' = now + 1
    /\ UNCHANGED <<wallets, transactions, credited, api_keys,
                   pc, op, loc, lock, work, forUpdate, result>>

\* POST /create, with valid permissions (the caller is drawn where the handler first
\* reads it)
CreateKeyStart(p) ==
    /\ pc[p] = "idle"
    /\ Goto(p, "k_count", [NoOp EXCEPT !.kind = "create_key"], NoLoc, <<>>)
    /\ Local

\* create_api_key inside transaction.atomic: count_active_keys(user), and the ValueError
\* when MAX_ACTIVE_KEYS of them are active
CreateKeyCount(p) ==
    /\ pc[p] = "k_count"
    /\ ~ReadBlocked(p)
    /\ \E caller \in IF op[p].kind = "rollover" THEN {op[p].user} ELSE Users :
         IF count_active_keys(View(p).api_keys, caller, now) >= MAX_ACTIVE_KEYS
         THEN Raise(p, op[p].kind, "ValueError: Maximum of 5 active API keys allowed")
         ELSE Read(p) /\ Goto(p, "k_insert", [op[p] EXCEPT !.user = caller], loc[p], <<>>)

\* expires_at = parse_expiry_to_datetime(expiry); APIKey.objects.create(user=user, ...)
CreateKeyInsert(p) ==
    /\ pc[p] = "k_insert"
    /\ Len(View(p).api_keys) < MaxKeys
    /\ Write(p, [View(p) EXCEPT !.api_keys = Append(@, KeyRow(op[p].user, now + 1))],
             "commit", op[p], loc[p], <<>>)

\* the call of the given kind for key id k ends with the exception exc
KeyRaise(p, kind, k, exc) ==
    /\ Rollback(p)
    /\ pc' = [pc EXCEPT ![p] = "done"]
    /\ result' = [result EXCEPT ![p] = exc]
    /\ op' = [op EXCEPT ![p] = [NoOp EXCEPT !.kind = kind, !.ref = k]]
    /\ loc' = [loc EXCEPT ![p] = NoLoc]
    /\ forUpdate' = [forUpdate EXCEPT ![p] = <<>>]

\* POST /rollover (each argument is drawn where the handler first reads it)
RolloverStart(p) ==
    /\ pc[p] = "idle"
    /\ Goto(p, "r_get", [NoOp EXCEPT !.kind = "rollover"], NoLoc, <<>>)
    /\ Local

\* rollover_api_key inside transaction.atomic: APIKey.objects.get(id=..., user=user), the
\* test of is_expired and the count; then create_api_key, which counts again
RolloverGet(p) ==
    /\ pc[p] = "r_get"
    /\ ~ReadBlocked(p)
    /\ \E caller \in Users, k \in KeyIds :
         LET keys == View(p).api_keys
         IN IF k \notin DOMAIN keys \/ keys[k].user # caller
            THEN KeyRaise(p, "rollover", k,
                          "ValueError: API key not found or does not belong to you")
            ELSE IF ~is_expired(keys[k], now)
            THEN KeyRaise(p, "rollover", k, "ValueError: Can only rollover expired keys")
            ELSE IF count_active_keys(keys, caller, now) >= MAX_ACTIVE_KEYS
            THEN KeyRaise(p, "rollover", k,
                          "ValueError: Maximum of 5 active API keys allowed")
            ELSE /\ Read(p)
                 /\ Goto(p, "k_count", [op[p] EXCEPT !.user = caller, !.ref = k],
                         loc[p], <<>>)

\* POST /revoke (each argument is drawn where the handler first reads it)
RevokeStart(p) ==
    /\ pc[p] = "idle"
    /\ Goto(p, "v_get", [NoOp EXCEPT !.kind = "revoke"], NoLoc, <<>>)
    /\ Local

\* revoke_api_key, in autocommit mode: APIKey.objects.get(id=key_id, user=user) and the
\* test of is_revoked
RevokeGet(p) ==
    /\ pc[p] = "v_get"
    /\ ~ReadBlocked(p)
    /\ \E caller \in Users, k \in KeyIds :
         IF k \notin DOMAIN api_keys \/ api_keys[k].user # caller
         THEN KeyRaise(p, "revoke", k,
                       "ValueError: API key not found or does not belong to you")
         ELSE IF api_keys[k].is_revoked
         THEN KeyRaise(p, "revoke", k, "ValueError: API key is already revoked")
         ELSE /\ Goto(p, "v_save", [op[p] EXCEPT !.user = caller, !.ref = k], loc[p], <<>>)
              /\ Local

\* api_key.revoke(): the UPDATE of is_revoked on the row
RevokeSave(p) ==
    /\ pc[p] = "v_save"
    /\ Write(p, [Committed EXCEPT !.api_keys[op[p].ref] = revoke(@)],
             "commit", op[p], loc[p], <<>>)

\* a request arrives with x-api-key: the key that was issued for row k, or for no row
ValidateStart(p) ==
    /\ pc[p] = "idle"
    /\ Goto(p, "a_get", [NoOp EXCEPT !.kind = "validate"], NoLoc, <<>>)
    /\ Local

\* a lookup by key_hash alone
ValidateGetAnyKey(p) ==
    /\ pc[p] = "a_get"
    /\ ~ReadBlocked(p)
    /\ \E k \in KeyIds :
         IF k \notin DOMAIN api_keys \/ is_expired(api_keys[k], now)
         THEN KeyRaise(p, "validate", k, "None")
         ELSE Goto(p, "a_touch", [op[p] EXCEPT !.ref = k], loc[p], <<>>) /\ Local

\* validate_api_key: APIKey.objects.get(key_hash=key_hash, is_revoked=False), None when
\* there is no such row or it is expired
ValidateGet(p) ==
    /\ pc[p] = "a_get"
    /\ ~ReadBlocked(p)
    /\ \E k \in KeyIds :
         IF k \notin DOMAIN api_keys \/ api_keys[k].is_revoked
            \/ is_expired(api_keys[k], now)
         THEN KeyRaise(p, "validate", k, "None")
         ELSE Goto(p, "a_touch", [op[p] EXCEPT !.ref = k], loc[p], <<>>) /\ Local

\* api_key.update_last_used(): the UPDATE of last_used_at on the row, a column that
\* nothing reads; the key is returned
ValidateTouch(p) ==
    /\ pc[p] = "a_touch"
    /\ Write(p, Committed, "commit", op[p], loc[p], <<>>)

\* user 1 has created four keys that are active and one that has expired; both users
\* have a wallet; no request is running
InitKeys ==
    /\ wallets = [u \in Users |-> 0]
    /\ transactions = {}
    /\ credited = [r \in {SeedRef} \cup Refs |-> 0]
    /\ api_keys = [k \in 1..MAX_ACTIVE_KEYS |->
                     IF k < MAX_ACTIVE_KEYS THEN KeyRow(1, LongLived) ELSE KeyRow(1, -1)]
    /\ now = 0
    /\ pc = [p \in Procs |-> "idle"]
    /\ op = [p \in Procs |-> NoOp]
    /\ loc = [p \in Procs |-> NoLoc]
    /\ lock = [p \in Procs |-> "none"]
    /\ work = [p \in Procs |-> NoWork]
    /\ forUpdate = [p \in Procs |-> <<>>]
    /\ result = [p \in Procs |-> "none"]

\* keys are created, rolled over, revoked and used while time passes
NextKeys ==
    \/ \E p \in Procs :
        \/ CreateKeyStart(p)
        \/ CreateKeyCount(p)
        \/ CreateKeyInsert(p)
        \/ RolloverStart(p)
        \/ RolloverGet(p)
        \/ RevokeStart(p)
        \/ RevokeGet(p)
        \/ RevokeSave(p)
        \/ ValidateStart(p)
        \/ ValidateGet(p)
        \/ ValidateTouch(p)
        \/ CommitWait(p)
        \/ Commit(p)
        \/ Return(p)
    \/ Tick

KeySpec == InitKeys /\ [][NextKeys]_vars

\* ------------------------------------------------------------------ Wallet.credit, Wallet.debit
\* the amounts a caller of the two methods can pass
MethodAmounts == {-1, 0, 1, 2}

\* a caller loads the wallet of a user and calls one of the two methods on it
MethodStart(p) ==
    /\ pc[p] = "idle"
    /\ \E k \in {"credit", "debit"}, u \in Users, a \in MethodAmounts :
         Goto(p, "m_call", [NoOp EXCEPT !.kind = k, !.user = u, !.amount = a], NoLoc, <<>>)
    /\ Local

\* the call ends with res; its kind and the wallet it was made on are kept
MethodFinish(p, res) ==
    /\ pc' = [pc EXCEPT ![p] = "done"]
    /\ result' = [result EXCEPT ![p] = res]
    /\ op' = [op EXCEPT ![p] = [NoOp EXCEPT !.kind = op[p].kind, !.user = op[p].user]]
    /\ UNCHANGED <<loc, forUpdate>>

\* Wallet.objects.get(user=u), then wallet.credit(amount) or wallet.debit(amount): the
\* method computes the balance and saves it, in autocommit mode
MethodCall(p) ==
    /\ pc[p] = "m_call"
    /\ \A q \in Procs : lock[q] = "none"
    /\ LET u == op[p].user
           c == credit(wallets[u], op[p].amount)
           d == debit(wallets[u], op[p].amount)
       IN IF op[p].kind = "credit"
          THEN /\ c \in (-MaxBalance)..MaxBalance
               /\ wallets' = [wallets EXCEPT ![u] = c]
               /\ MethodFinish(p, "ok")
          ELSE IF ~d.ok
          THEN /\ UNCHANGED wallets
               /\ MethodFinish(p, "ValueError: Insufficient balance")
          ELSE /\ d.balance \in (-MaxBalance)..MaxBalance
               /\ wallets' = [wallets EXCEPT ![u] = d.balance]
               /\ MethodFinish(p, "ok")
    /\ UNCHANGED <<transactions, credited, api_keys, now, lock, work>>

\* both users have a wallet, user 1 holds the confirmed seed deposit; no request is running
InitWallet ==
    /\ wallets = [u \in Users |-> IF u = 1 THEN SeedRecord.amount ELSE 0]
    /\ transactions = {SeedRecord}
    /\ credited = [r \in {SeedRef} \cup Refs |-> IF r = SeedRef THEN SeedRecord.amount ELSE 0]
    /\ api_keys = <<>>
    /\ now = 0
    /\ pc = [p \in Procs |-> "idle"]
    /\ op = [p \in Procs |-> NoOp]
    /\ loc = [p \in Procs |-> NoLoc]
    /\ lock = [p \in Procs |-> "none"]
    /\ work = [p \in Procs |-> NoWork]
    /\ forUpdate = [p \in Procs |-> <<>>]
    /\ result = [p \in Procs |-> "none"]

\* calls of the two methods of Wallet, with any amount
NextWallet ==
    \E p \in Procs :
        \/ MethodStart(p)
        \/ MethodCall(p)
        \/ Return(p)

WalletSpec == InitWallet /\ [][NextWallet]_vars

\* ------------------------------------------------------------------ vocabulary of the properties
\* the step leaves every committed row as it is
DbUnchanged == UNCHANGED <<wallets, transactions, credited, api_keys>>

\* the balance of owner u in the table w, a missing row counting as 0
BalanceOf(w, u) == IF u \in DOMAIN w THEN w[u] ELSE 0

\* the deposit of reference r is recorded as success in rows
Success(rows, r) ==
    \E t \in rows : /\ t.reference = <<r, "">>
                     /\ t.transaction_type = "deposit"
                     /\ t.status = "success"

\* request p has ended a call of the given kind with res
Ended(p, kind, res) == pc[p] = "done" /\ op[p].kind = kind /\ result[p] = res

\* ------------------------------------------------------------------ properties

\* C1: in every reachable state every wallet balance is >= 0, in the committed table
\* and in what an open transaction of a confirmation or a transfer has written
Thm_C1 ==
    /\ \A u \in DOMAIN wallets : wallets[u] >= 0
    /\ \A p \in Procs :
         lock[p] \in {"reserved", "pending"}
            => \A u \in DOMAIN work[p].wallets : work[p].wallets[u] >= 0

\* a transfer has emptied its sender's wallet while a confirmation is about to credit
Wit_C1 ==
    /\ \E t \in transactions :
         t.transaction_type = "transfer" /\ t.reference[2] = "" /\ wallets[t.user] = 0
    /\ \E p \in Procs : pc[p] = "d_credit"

\* C2: a call of process_successful_deposit that finds the deposit recorded as success
\* returns that record and changes no balance and no row; the call that commits a
\* confirmation finds the deposit pending, adds exactly its amount to the owner's
\* wallet and nothing to another, and turns that one row into success
Thm_C2 ==
    [][\A p \in Procs :
         /\ (pc[p] = "d_txn" /\ Success(transactions, op[p].ref) /\ pc'[p] # pc[p])
               => (pc'[p] = "done" /\ result'[p] = "ok" /\ DbUnchanged)
         /\ (pc[p] = "commit" /\ op[p].kind = "confirm" /\ pc'[p] = "done")
               => \E t \in transactions :
                    /\ t.reference = <<op[p].ref, "">>
                    /\ t.transaction_type = "deposit"
                    /\ t.status = "pending"
                    /\ wallets' = [wallets EXCEPT ![t.user] = @ + t.amount]
                    /\ transactions' =
                         (transactions \ {t}) \cup {[t EXCEPT !.status = "success"]}
                    /\ result'[p] = "ok"]_vars

\* both requests confirmed the same generated reference, one after the other: both got
\* the record, the deposit is success and its amount was credited once
Wit_C2 ==
    \E r \in Refs :
        /\ \A p \in Procs : Ended(p, "confirm", "ok") /\ op[p].ref = r
        /\ Success(transactions, r)
        /\ \E t \in transactions : t.reference = <<r, "">> /\ credited[r] = t.amount

\* C3: whatever the interleaving of confirmations of one reference, the credit committed
\* for a reference is the deposit's amount once the deposit is success and nothing
\* before, and while a confirmation holds its credit uncommitted no credit for that
\* reference is committed: no second credit can land on a first
Thm_C3 ==
    /\ \A r \in DOMAIN credited :
         \/ credited[r] = 0 /\ ~Success(transactions, r)
         \/ /\ Success(transactions, r)
            /\ \E t \in transactions : t.reference = <<r, "">> /\ credited[r] = t.amount
    /\ \A p \in Procs :
         (op[p].kind = "confirm" /\ lock[p] \in {"reserved", "pending"})
            => credited[op[p].ref] = 0

\* two confirmations of one generated reference raced: one was credited, the other was
\* turned away by the database, and the credit is there once
Wit_C3 ==
    \E r \in Refs :
        /\ Ended("p1", "confirm", "ok") /\ op["p1"].ref = r
        /\ Ended("p2", "confirm", "OperationalError") /\ op["p2"].ref = r
        /\ \E t \in transactions : t.reference = <<r, "">> /\ credited[r] = t.amount
        /\ credited[r] > 0

\* C4: the step that commits a transfer of A from S to R takes exactly A from the
\* balance of S and adds exactly A to the balance of R (0 when R had no wallet row), so
\* the sum of the two is what it was
Thm_C4 ==
    [][\A p \in Procs :
         (pc[p] = "commit" /\ op[p].kind = "transfer" /\ pc'[p] = "done")
            => LET S == op[p].user
                   R == loc[p].recipient
                   A == op[p].amount
               IN /\ result'[p] = "ok"
                  /\ S # R
                  /\ wallets'[S] = wallets[S] - A
                  /\ wallets'[R] = BalanceOf(wallets, R) + A
                  /\ wallets'[S] + wallets'[R] = wallets[S] + BalanceOf(wallets, R)]_vars

\* a transfer has succeeded into a wallet that held money before it, from a wallet that
\* keeps some
Wit_C4 ==
    \E p \in Procs :
        /\ Ended(p, "transfer", "ok")
        /\ \E t \in transactions :
             /\ t.transaction_type = "transfer" /\ t.reference[2] = ""
             /\ wallets[t.recipient] > t.amount
             /\ wallets[t.user] > 0

\* p and q are inside transfer_funds, each has read its own wallet as the sender and
\* each sends to the other
Opposite(p, q) ==
    /\ p # q
    /\ op[p].kind = "transfer" /\ op[q].kind = "transfer"
    /\ pc[p] \in {"t_checks", "t_debit", "t_credit", "commit"}
    /\ pc[q] \in {"t_checks", "t_debit", "t_credit", "commit"}
    /\ op[p].user # op[q].user
    /\ ProfileByWalletNumber(op[p].wn) = op[q].user
    /\ ProfileByWalletNumber(op[q].wn) = op[p].user

\* C5: when two transfers in opposite directions between the same two wallets are in
\* flight together, each of the two calls ends
Thm_C5 ==
    \A p, q \in Procs : Opposite(p, q) ~> (pc[p] = "done")

\* the two opposite transfers have both passed every check: each holds its read of the
\* wallets and is about to write
Wit_C5 ==
    /\ Opposite("p1", "p2")
    /\ pc["p1"] = "t_debit" /\ pc["p2"] = "t_debit"

\* C6: a transfer asks for its two wallet rows in ascending order of the wallets,
\* whichever of them is the sender's
CX_C6 ==
    \A p \in Procs :
        (op[p].kind = "transfer" /\ Len(forUpdate[p]) = 2)
           => forUpdate[p][1][2] < forUpdate[p][2][2]

\* C7: every step of a transfer_funds call except the commit of a successful one leaves
\* every balance and every Transaction row as committed before it: a call that fails,
\* at whatever step, has changed nothing
Thm_C7 ==
    [][\A p \in Procs :
         (op[p].kind = "transfer" /\ pc[p] # "done" /\ pc'[p] # pc[p]
             /\ ~(pc[p] = "commit" /\ result'[p] = "ok"))
            => DbUnchanged]_vars

\* a transfer failed on the reference of its first record, after the debit and the
\* credit, and the sender's money is all there
Wit_C7 ==
    \E p \in Procs :
        /\ Ended(p, "transfer", "IntegrityError")
        /\ wallets[1] = 2
        /\ ~\E t \in transactions : t.transaction_type = "transfer"

\* C8: a transfer whose amount is greater than the balance of the sender's wallet ends
\* with InsufficientBalanceException at the balance check, and that step changes no
\* balance and adds no Transaction row
Thm_C8 ==
    [][\A p \in Procs :
         (pc[p] = "t_checks" /\ op[p].amount > wallets[op[p].user] /\ pc'[p] # pc[p])
            => /\ pc'[p] = "done"
               /\ result'[p] = "InsufficientBalanceException"
               /\ DbUnchanged]_vars

\* a transfer was refused for its balance in a state where a wallet holds 1, less than
\* the largest amount and more than nothing
Wit_C8 ==
    \E p \in Procs :
        /\ Ended(p, "transfer", "InsufficientBalanceException")
        /\ \E u \in DOMAIN wallets : wallets[u] = 1

\* C9: a transfer of amount 0 or less ends with InvalidAmountException at its first
\* step, and that step changes no balance and no Transaction row
Thm_C9 ==
    [][\A p \in Procs :
         (pc[p] = "t_sender" /\ op[p].amount <= 0 /\ pc'[p] # pc[p])
            => /\ pc'[p] = "done"
               /\ result'[p] = "InvalidAmountException"
               /\ DbUnchanged]_vars

\* a transfer was refused for its amount
Wit_C9 == \E p \in Procs : Ended(p, "transfer", "InvalidAmountException")

\* C10: a transfer to the sender's own wallet number ends with the self-transfer
\* rejection whatever the balance is, and changes no balance and no Transaction row
CX_C10 ==
    [][\A p \in Procs :
         (pc[p] = "t_checks" /\ ProfileByWalletNumber(op[p].wn) = op[p].user
             /\ pc'[p] # pc[p])
            => /\ pc'[p] = "done"
               /\ result'[p] = "InvalidAmountException: Cannot transfer to yourself"
               /\ DbUnchanged]_vars

\* p is inside transfer_funds and has read the balance of its sender's wallet
ReadBalance(p) ==
    op[p].kind = "transfer" /\ pc[p] \in {"t_checks", "t_debit", "t_credit", "commit"}

Thm_C12 ==
    [][/\ \A t \in transactions :
            t.transaction_type = "deposit" => t.paystack_reference # Null
       /\ \A p \in Procs :
            /\ lock[p] \in {"reserved", "pending"}
                  => \A t \in work[p].transactions :
                        t.transaction_type = "deposit" => t.paystack_reference # Null
            /\ pc[p] = "i_await" => lock[p] = "none"
            /\ (pc[p] = "i_await" /\ result'[p] = "PaystackAPIException")
                  => DbUnchanged]_vars

\* a deposit failed at the gateway and a later one of the same user went through
Wit_C12 ==
    /\ Ended("p1", "deposit", "PaystackAPIException")
    /\ Ended("p2", "deposit", "ok")
    /\ \E t \in transactions : t.transaction_type = "deposit" /\ t.status = "pending"

Thm_C20 ==
    [][/\ \A t \in transactions : t.transaction_type = "transfer" => t.status = "success"
       /\ \A p \in Procs :
            /\ lock[p] \in {"reserved", "pending"}
                  => \A t \in work[p].transactions :
                        t.transaction_type = "transfer" => t.status = "success"
            /\ (pc[p] = "commit" /\ op[p].kind = "transfer" /\ pc'[p] = "done")
                  => \E t \in transactions' \ transactions :
                        /\ t.reference = <<loc[p].reference, "">>
                        /\ t.user = op[p].user
                        /\ t.status = "success"]_vars

\* a transfer has returned and both its records are there while a deposit still waits
Wit_C20 ==
    /\ \E p \in Procs : Ended(p, "transfer", "ok")
    /\ \E r \in Refs :
         /\ \E t \in transactions : t.reference = <<r, "">> /\ t.transaction_type = "transfer"
         /\ \E t \in transactions : t.reference = <<r, "-RECV">>
    /\ \E t \in transactions : t.status = "pending"

\* C14: a Transaction whose status is success or failed keeps that status in every step,
\* and the confirmation of a deposit whose status is failed credits no wallet
CX_C14 ==
    [][/\ \A t \in transactions : t.status \in {"success", "failed"} => t \in transactions'
       /\ \A p \in Procs :
            (/\ pc[p] = "commit" /\ op[p].kind = "confirm" /\ pc'[p] = "done"
             /\ \E t \in DepositRows(transactions, op[p].ref) : t.status = "failed")
               => wallets' = wallets]_vars

\* a webhook whose signature header is missing or is not the HMAC-SHA512 of its body
\* under PAYSTACK_SECRET_KEY
BadSignature(h) == h.signature = <<>> \/ h.signature # hmac_sha512(PAYSTACK_SECRET_KEY, Body(h))

\* C15: a webhook with a missing or wrong signature ends at once with the signature
\* error (answer 400, status false), starts no lookup of a Transaction, takes no lock,
\* and changes no Transaction row and no wallet
Thm_C15 ==
    [][\A p \in Procs :
         (pc[p] = "w_recv" /\ BadSignature(op[p].hook) /\ pc'[p] # pc[p])
            => /\ pc'[p] = "done"
               /\ result'[p] \in {"APIException: Missing signature",
                                  "APIException: Invalid signature"}
               /\ WebhookResponse(result'[p]) = [code |-> 400, status |-> FALSE]
               /\ lock' = lock
               /\ work' = work
               /\ DbUnchanged]_vars

\* a webhook with a wrong signature and one without a signature were rejected, and the
\* awaited deposit is still pending with nothing credited
Wit_C15 ==
    /\ Ended("p1", "webhook", "APIException: Invalid signature")
    /\ Ended("p2", "webhook", "APIException: Missing signature")
    /\ AwaitedRecord \in transactions
    /\ wallets[2] = 0

\* C16: a validly signed charge.success webhook is answered {status: true} both when
\* its confirmation commits the credit and when the deposit is already success and
\* nothing is changed
Thm_C16 ==
    [][\A p \in Procs :
         /\ (pc[p] = "commit" /\ op[p].kind = "confirm" /\ pc'[p] = "done")
               => WebhookResponse(result'[p]) = [code |-> 200, status |-> TRUE]
         /\ (pc[p] = "d_txn" /\ pc'[p] # pc[p] /\ Success(transactions, op[p].ref))
               => /\ pc'[p] = "done"
                  /\ WebhookResponse(result'[p]) = [code |-> 200, status |-> TRUE]
                  /\ DbUnchanged]_vars

\* the first delivery and a redelivery for the pending deposit have both been answered
\* {status: true}, and the deposit was credited once
Wit_C16 ==
    /\ \A p \in Procs : Ended(p, "confirm", "ok") /\ op[p].ref = 1
    /\ WebhookResponse(result["p1"]) = WebhookResponse(result["p2"])
    /\ Success(transactions, 1)
    /\ wallets[2] = 2

\* C17: a validly signed webhook starts the confirmation exactly when its event is
\* charge.success, its status is "success" and it has a reference; every other validly
\* signed webhook ends with {status: true} and changes no Transaction row and no wallet
Thm_C17 ==
    [][\A p \in Procs :
         (pc[p] = "w_recv" /\ ~BadSignature(op[p].hook) /\ pc'[p] # pc[p])
            => LET h == op[p].hook
               IN /\ DbUnchanged
                  /\ pc'[p] = "d_txn"
                        <=> (h.event = "charge.success" /\ h.status = "success"
                             /\ h.reference # Null)
                  /\ pc'[p] = "d_txn" => op'[p].ref = h.reference
                  /\ pc'[p] # "d_txn" => pc'[p] = "done" /\ result'[p] = "ok"]_vars

\* two validly signed webhooks that do not confirm were accepted, and the deposit is
\* still pending with nothing credited
Wit_C17 ==
    /\ \A p \in Procs : Ended(p, "webhook", "ok")
    /\ AwaitedRecord \in transactions
    /\ wallets[2] = 0

\* C18: the step of a status query changes no Transaction row, no wallet balance and
\* nothing a running transaction has written, whatever the reference and the caller
Thm_C18 ==
    [][\A p \in Procs :
         (pc[p] = "s_read" /\ pc'[p] # pc[p])
            => /\ DbUnchanged
               /\ lock' = lock
               /\ work' = work]_vars

\* the owner was told that the awaited deposit is pending, another caller was turned
\* away, and the deposit is still pending with nothing credited
Wit_C18 ==
    /\ \E p \in Procs :
         Ended(p, "status", "200") /\ op[p].ref = 1 /\ loc[p].tstatus = "pending"
    /\ \E p \in Procs : Ended(p, "status", "400: Transaction not found")
    /\ AwaitedRecord \in transactions
    /\ wallets[2] = 0

\* C19: a status query by a caller who does not own the Transaction of the reference,
\* like a query for a reference that has no Transaction, ends with the one answer
\* "Transaction not found", which carries no status and no amount
Thm_C19 ==
    [][\A p \in Procs :
         (/\ pc[p] = "s_read" /\ pc'[p] # pc[p]
          /\ \A t \in transactions :
               t.reference = Primary(op[p].ref) => t.user # op[p].user)
            => /\ pc'[p] = "done"
               /\ result'[p] = "400: Transaction not found"
               /\ loc'[p] = NoLoc]_vars

\* user 2 asked for the deposit of user 1 and user 1 for a reference that does not
\* exist: both got the same answer
Wit_C19 ==
    /\ Ended("p1", "status", "400: Transaction not found")
    /\ op["p1"].user = 2 /\ op["p1"].ref = SeedRef
    /\ Ended("p2", "status", "400: Transaction not found")
    /\ op["p2"].user = 1 /\ get_transaction_by_reference(transactions, op["p2"].ref) = {}
    /\ loc["p1"] = loc["p2"]

\* the rows of type transfer
TransferRows(rows) == {t \in rows : t.transaction_type = "transfer"}

\* C21: the step that commits a transfer adds exactly two records, the sender's with
\* reference R and the recipient as counterparty and the recipient's with reference
\* R-RECV and the sender as counterparty, both with the amount; a transfer that fails
\* adds none; and a record R-RECV exists exactly when the transfer record R exists
Thm_C21 ==
    [][/\ \A r \in Refs :
            (\E t \in transactions : t.reference = <<r, "-RECV">>)
               <=> (\E t \in TransferRows(transactions) : t.reference = <<r, "">>)
       /\ \A p \in Procs :
            /\ (pc[p] = "commit" /\ op[p].kind = "transfer" /\ pc'[p] = "done")
                  => /\ transactions \subseteq transactions'
                     /\ Cardinality(transactions' \ transactions) = 2
                     /\ \E t \in transactions' \ transactions :
                          /\ t.reference = <<loc[p].reference, "">>
                          /\ t.user = op[p].user
                          /\ t.recipient = loc[p].recipient
                          /\ t.amount = op[p].amount
                     /\ \E t \in transactions' \ transactions :
                          /\ t.reference = <<loc[p].reference, "-RECV">>
                          /\ t.user = loc[p].recipient
                          /\ t.recipient = op[p].user
                          /\ t.amount = op[p].amount
            /\ (op[p].kind = "transfer" /\ pc[p] # "done" /\ pc'[p] = "done"
                /\ result'[p] # "ok")
                  => transactions' = transactions]_vars

\* one transfer has returned and one has failed on the balance: the ledger holds the
\* two records of the first and no other transfer record
Wit_C21 ==
    /\ Ended("p1", "transfer", "ok")
    /\ Ended("p2", "transfer", "InsufficientBalanceException")
    /\ Cardinality(TransferRows(transactions)) = 2
    /\ \E r \in Refs : {<<r, "">>, <<r, "-RECV">>}
                          = {t.reference : t \in TransferRows(transactions)}

\* unique=True on Transaction.reference and on Transaction.paystack_reference
UniqueRows(rows) ==
    \A t, u \in rows :
        t # u => /\ t.reference # u.reference
                 /\ t.paystack_reference # Null => t.paystack_reference # u.paystack_reference

\* C22: no two Transaction rows, committed or written in an open transaction, share a
\* reference or a gateway reference; a creation that meets an existing reference ends
\* with the integrity error and changes no row, and a committed creation adds only rows
\* whose references were not there
Thm_C22 ==
    [][/\ UniqueRows(transactions)
       /\ \A p \in Procs :
            /\ lock[p] \in {"reserved", "pending"} => UniqueRows(work[p].transactions)
            /\ (pc[p] \in {"i_await", "t_credit"} /\ result'[p] = "IntegrityError")
                  => DbUnchanged /\ lock'[p] = "none"
            /\ (pc[p] = "commit" /\ pc'[p] = "done" /\ op[p].kind \in {"deposit", "transfer"})
                  => /\ transactions \subseteq transactions'
                     /\ Cardinality(transactions' \ transactions)
                           = IF op[p].kind = "deposit" THEN 1 ELSE 2
                     /\ \A t \in transactions' \ transactions :
                           \A u \in transactions :
                              /\ u.reference # t.reference
                              /\ t.paystack_reference # Null
                                    => u.paystack_reference # t.paystack_reference]_vars

\* two deposits were initiated with the same reference: one is in the ledger, the other
\* ended with the integrity error
Wit_C22 ==
    /\ Ended("p1", "deposit", "IntegrityError")
    /\ Ended("p2", "deposit", "ok")
    /\ \E t \in transactions : t.status = "pending"

\* C23: get-or-create of a wallet inserts a row only for an owner who has none, with
\* balance 0 and beside the other rows, and otherwise hands back the existing row with
\* its balance unchanged, however the calls for one owner interleave; no step removes
\* a wallet
Thm_C23 ==
    [][/\ \A u \in DOMAIN wallets : u \in DOMAIN wallets'
       /\ \A p \in Procs :
            /\ (pc[p] = "i_wcommit" /\ pc'[p] = "i_await")
                  => /\ op[p].user \notin DOMAIN wallets
                     /\ DOMAIN wallets' = DOMAIN wallets \cup {op[p].user}
                     /\ wallets'[op[p].user] = 0
                     /\ \A u \in DOMAIN wallets : wallets'[u] = wallets[u]
            /\ (pc[p] \in {"i_wallet", "i_wcreate"} /\ pc'[p] = "i_await")
                  => /\ op'[p].user \in DOMAIN wallets
                     /\ DbUnchanged
                     /\ lock'[p] = "none"
            /\ (pc[p] = "t_checks" /\ pc'[p] = "t_debit")
                  => LET rc == loc'[p].recipient
                         v == View(p).wallets
                     IN IF rc \in DOMAIN v
                        THEN loc'[p].rbal = v[rc] /\ work' = work /\ DbUnchanged
                        ELSE /\ loc'[p].rbal = 0
                             /\ DOMAIN work'[p].wallets = DOMAIN v \cup {rc}
                             /\ work'[p].wallets[rc] = 0
                             /\ \A u \in DOMAIN v : work'[p].wallets[u] = v[u]]_vars

\* two deposit initiations for user 2 both found no wallet; one has created it, the
\* other is about to try its insert
Wit_C23 ==
    /\ pc["p1"] = "i_await" /\ op["p1"].user = 2
    /\ pc["p2"] = "i_wcreate" /\ op["p2"].user = 2
    /\ 2 \in DOMAIN wallets

\* C24: a transfer whose amount is below MIN_TRANSFER_AMOUNT or above
\* MAX_TRANSFER_AMOUNT moves no funds: every transfer that is committed has an amount
\* within the two bounds
CX_C24 ==
    [][\A p \in Procs :
         (pc[p] = "commit" /\ op[p].kind = "transfer" /\ pc'[p] = "done")
            => validate_transfer_amount(op[p].amount) = "none"]_vars

\* C25: a deposit whose amount is below MIN_DEPOSIT_AMOUNT or above MAX_DEPOSIT_AMOUNT
\* ends with InvalidAmountException before the gateway is called, so no request waits
\* for the gateway, and no deposit row is written, with such an amount
CX_C25 ==
    [][\A p \in Procs :
         /\ (pc[p] = "i_wallet" /\ pc'[p] # pc[p]
             /\ validate_deposit_amount(op[p].amount) # "none")
               => pc'[p] = "done" /\ result'[p] = "InvalidAmountException"
         /\ (pc[p] = "commit" /\ op[p].kind = "deposit" /\ pc'[p] = "done")
               => validate_deposit_amount(op[p].amount) = "none"]_vars

\* C26: a transfer goes past the lookup of the sender's wallet only for a sender who has
\* one; a transfer whose wallet number matches no profile ends with the not-found error
\* of the recipient whatever the sender's balance is; and a transfer that ends with a
\* not-found error changes no balance and no Transaction row
CX_C26 ==
    [][\A p \in Procs :
         /\ (pc[p] = "t_sender" /\ pc'[p] = "t_checks")
               => op'[p].user \in DOMAIN wallets
         /\ (pc[p] = "t_checks" /\ ProfileByWalletNumber(op[p].wn) = 0 /\ pc'[p] # pc[p])
               => pc'[p] = "done" /\ result'[p] = "WalletNotFoundException"
         /\ (op[p].kind = "transfer" /\ pc[p] # "done" /\ pc'[p] = "done"
             /\ result'[p] = "WalletNotFoundException")
               => DbUnchanged]_vars

\* C27: the history a caller gets holds only rows of the caller, each later row of it
\* older than the one before, and min(50, number of the caller's rows) of them; every
\* row of the caller that is left out is older than every row in it
Thm_C27 ==
    [][\A p \in Procs :
         (pc[p] = "h_read" /\ pc'[p] = "done")
            => LET page == loc'[p].page
                   mine == {t \in transactions : t.user = op[p].user}
                   n == Cardinality(mine)
               IN /\ \A i \in 1..Len(page) : page[i] \in mine
                  /\ \A i, j \in 1..Len(page) :
                        i < j => page[i].created_at > page[j].created_at
                  /\ Len(page) <= 50
                  /\ Len(page) = IF n < 50 THEN n ELSE 50
                  /\ \A t \in mine \ {page[i] : i \in 1..Len(page)} :
                        \A i \in 1..Len(page) : t.created_at < page[i].created_at]_vars

\* user 1 has more than 50 rows, user 2 has rows too, and user 1 was given 50
Wit_C27 ==
    \E p \in Procs :
        /\ Ended(p, "history", "200")
        /\ op[p].user = 1
        /\ Len(loc[p].page) = 50
        /\ Cardinality({t \in transactions : t.user = 1}) > 50
        /\ \E t \in transactions : t.user = 2

\* the keys of user u in the table keys that are not revoked and expire after instant t
ActiveKeys(keys, u, t) ==
    {k \in DOMAIN keys : keys[k].user = u /\ ~keys[k].is_revoked /\ keys[k].expires_at > t}

\* C28: no user has more than 5 active keys, in the committed table and in the table an
\* open transaction has written; a creation or rollover goes on to its insert only when
\* its user has fewer than 5 active keys, and one that ends with the error of the
\* maximum, or with the refusal of the write lock, adds no key
Thm_C28 ==
    [][/\ \A u \in Users : Cardinality(ActiveKeys(api_keys, u, now)) <= 5
       /\ \A p \in Procs :
            /\ lock[p] \in {"reserved", "pending"}
                  => \A u \in Users : Cardinality(ActiveKeys(work[p].api_keys, u, now)) <= 5
            /\ (pc[p] = "k_count" /\ pc'[p] = "k_insert")
                  => Cardinality(ActiveKeys(View(p).api_keys, op'[p].user, now)) < 5
            /\ (pc[p] \in {"k_count", "r_get", "k_insert"} /\ pc'[p] = "done")
                  => /\ api_keys' = api_keys
                     /\ result'[p] \in
                          {"ValueError: Maximum of 5 active API keys allowed",
                           "ValueError: API key not found or does not belong to you",
                           "ValueError: Can only rollover expired keys",
                           "OperationalError"}
            /\ (pc[p] = "commit" /\ op[p].kind \in {"create_key", "rollover"}
                /\ pc'[p] = "done")
                  => /\ Len(api_keys') = Len(api_keys) + 1
                     /\ \A k \in DOMAIN api_keys : api_keys'[k] = api_keys[k]
                     /\ api_keys'[Len(api_keys')].user = op[p].user]_vars

\* a creation and a rollover of user 1 both counted 4 active keys; one has added the
\* fifth, the other was refused the write lock
Wit_C28 ==
    /\ Ended("p1", "create_key", "ok")
    /\ Ended("p2", "rollover", "OperationalError")
    /\ Cardinality(ActiveKeys(api_keys, 1, now)) = 5

\* C29: a key that is revoked stays in the table and stays revoked in every step; the
\* commit of a revoke leaves its key revoked; the lookup of validate_api_key goes on to
\* return a key only when that key is not revoked and not expired; and revoke_api_key
\* goes on to its update only for a key of the caller that is not revoked, and
\* otherwise ends with an error and changes nothing
Thm_C29 ==
    [][/\ \A k \in DOMAIN api_keys :
            api_keys[k].is_revoked => k \in DOMAIN api_keys' /\ api_keys'[k].is_revoked
       /\ \A p \in Procs :
            /\ (pc[p] = "commit" /\ op[p].kind = "revoke" /\ pc'[p] = "done")
                  => api_keys'[op[p].ref].is_revoked
            /\ (pc[p] = "a_get" /\ pc'[p] = "a_touch")
                  => /\ op'[p].ref \in DOMAIN api_keys
                     /\ ~api_keys[op'[p].ref].is_revoked
                     /\ now <= api_keys[op'[p].ref].expires_at
            /\ (pc[p] = "a_get" /\ pc'[p] = "done")
                  => result'[p] = "None" /\ DbUnchanged
            /\ (pc[p] = "v_get" /\ pc'[p] = "v_save")
                  => /\ op'[p].ref \in DOMAIN api_keys
                     /\ ~api_keys[op'[p].ref].is_revoked
                     /\ api_keys[op'[p].ref].user = op'[p].user
            /\ (pc[p] = "v_get" /\ pc'[p] = "done")
                  => /\ DbUnchanged
                     /\ result'[p] \in
                          {"ValueError: API key is already revoked",
                           "ValueError: API key not found or does not belong to you"}]_vars

\* key 1 was revoked; afterwards a second revoke of it ended with the error and a
\* request that came with it was given no key
Wit_C29 ==
    /\ api_keys[1].is_revoked
    /\ Ended("p1", "revoke", "ValueError: API key is already revoked")
    /\ op["p1"].ref = 1
    /\ Ended("p2", "validate", "None")
    /\ op["p2"].ref = 1

\* C30: applied to a Transaction row of the ledger whose status is success or failed,
\* mark_success and mark_failed give the row back as it was
CX_C30 ==
    \A t \in transactions :
        t.status \in {"success", "failed"} => mark_success(t) = t /\ mark_failed(t) = t

\* the sum of the amounts of a set of rows
RECURSIVE SumAmounts(_)
SumAmounts(rows) ==
    IF rows = {} THEN 0
    ELSE LET t == CHOOSE x \in rows : TRUE IN t.amount + SumAmounts(rows \ {t})

\* the committed credits of the wallet of u: its confirmed deposits and the transfers it
\* received; and its committed debits: the transfers it sent
Credits(rows, u) ==
    {t \in rows : /\ t.user = u
                  /\ \/ t.transaction_type = "deposit" /\ t.status = "success"
                     \/ t.transaction_type = "transfer" /\ t.reference[2] = "-RECV"}

Debits(rows, u) ==
    {t \in rows : t.user = u /\ t.transaction_type = "transfer" /\ t.reference[2] = ""}

\* C31: whatever the interleaving of confirmations and transfers, the committed balance
\* of every wallet is the sum of its committed credits less the sum of its committed
\* debits (a wallet starts at 0), and so is every balance an open transaction has written
\* against the rows it has written: no update is lost
Thm_C31 ==
    /\ \A u \in DOMAIN wallets :
         wallets[u] = SumAmounts(Credits(transactions, u)) - SumAmounts(Debits(transactions, u))
    /\ \A p \in Procs :
         pc[p] = "commit"
            => \A u \in DOMAIN work[p].wallets :
                 work[p].wallets[u] = SumAmounts(Credits(work[p].transactions, u))
                                        - SumAmounts(Debits(work[p].transactions, u))

\* a confirmation has read the balance of a wallet that a transfer out of that wallet,
\* not yet committed, has already debited
Wit_C31 ==
    /\ pc["p1"] = "commit" /\ op["p1"].kind = "transfer" /\ lock["p1"] = "reserved"
    /\ pc["p2"] = "d_credit" /\ loc["p2"].tuser = op["p1"].user
    /\ loc["p2"].rbal # work["p1"].wallets[op["p1"].user]

\* C32: while the gateway call of initiate_deposit is outstanding, the request holds no
\* database lock, has no open transaction and has asked for no row with
\* select_for_update(): what a confirmation or a transfer waits for, or is refused by,
\* is never a lock of a request that waits for the gateway
Thm_C32 ==
    \A p \in Procs :
        pc[p] = "i_await"
           => /\ lock[p] = "none"
              /\ work[p] = NoWork
              /\ forUpdate[p] = <<>>
              /\ \A q \in Procs \ {p} :
                   /\ Busy(q) => \E x \in Procs \ {p, q} : lock[x] \in {"reserved", "pending"}
                   /\ ReadBlocked(q) => \E x \in Procs \ {p, q} : lock[x] = "pending"

\* a deposit of user 2, whose wallet row the request has just created, waits for the
\* gateway while a transfer holds the write lock and is about to commit
Wit_C32 ==
    /\ pc["p1"] = "i_await" /\ op["p1"].user = 2 /\ 2 \in DOMAIN wallets
    /\ pc["p2"] = "commit" /\ op["p2"].kind = "transfer" /\ lock["p2"] = "reserved"

\* C33: a transfer that ends with a validation error (invalid amount, unknown recipient,
\* self-transfer) holds no lock and has asked for no wallet row with select_for_update()
\* at the step that raises the error
CX_C33 ==
    [][\A p \in Procs :
         (/\ op[p].kind = "transfer" /\ pc[p] # "done" /\ pc'[p] = "done"
          /\ result'[p] \in {"InvalidAmountException", "WalletNotFoundException",
                             "InvalidAmountException: Cannot transfer to yourself"})
            => lock[p] = "none" /\ forUpdate[p] = <<>>]_vars

\* C34: a call of transfer_funds or process_successful_deposit that has ended, with its
\* result or with any error, holds no database lock, has no uncommitted write left and
\* no row asked for with select_for_update(); neither does a request that runs no call
Thm_C34 ==
    \A p \in Procs :
        (pc[p] \in {"done", "idle"})
           => lock[p] = "none" /\ work[p] = NoWork /\ forUpdate[p] = <<>>

\* a transfer ended on a duplicate reference after it had debited and credited, and a
\* confirmation ended refused by the database after it had read its rows; no lock is held
Wit_C34 ==
    /\ Ended("p1", "transfer", "IntegrityError")
    /\ Ended("p2", "confirm", "OperationalError")
    /\ \A p \in Procs : lock[p] = "none"

\* C35: a call of Wallet.debit on a balance lower than the amount ends with the
\* insufficient-balance error of the code, ValueError("Insufficient balance"), and
\* leaves every balance as it was; on a balance that covers the amount it takes exactly
\* the amount from that wallet and changes no other
Thm_C35 ==
    [][\A p \in Procs :
         (pc[p] = "m_call" /\ op[p].kind = "debit" /\ pc'[p] = "done")
            => LET u == op[p].user
               IN IF wallets[u] < op[p].amount
                  THEN /\ result'[p] = "ValueError: Insufficient balance"
                       /\ wallets' = wallets
                  ELSE /\ result'[p] = "ok"
                       /\ wallets' = [wallets EXCEPT ![u] = @ - op[p].amount]]_vars

\* a debit of the wallet of user 2 was refused and one of the wallet of user 1, which
\* held 2, left it with 1
Wit_C35 ==
    /\ Ended("p1", "debit", "ValueError: Insufficient balance") /\ op["p1"].user = 2
    /\ Ended("p2", "debit", "ok") /\ op["p2"].user = 1
    /\ wallets[1] = 1 /\ wallets[2] = 0

\* C36: a call of Wallet.credit or Wallet.debit with an amount of 0 or less is rejected
\* and leaves the balance as it was; no credit lowers a balance and no debit raises one
CX_C36 ==
    [][\A p \in Procs :
         (pc[p] = "m_call" /\ pc'[p] = "done")
            => LET u == op[p].user
               IN /\ op[p].amount <= 0 => (result'[p] # "ok" /\ wallets' = wallets)
                  /\ op[p].kind = "credit" => wallets'[u] >= wallets[u]
                  /\ op[p].kind = "debit" => wallets'[u] <= wallets[u]]_vars

\* row t2 is row t with, at most, another status
SameButStatus(t, t2) == t2 = [t EXCEPT !.status = t2.status]

\* C37: no step takes a row out of the committed ledger, and every committed row is
\* there after the step with the same reference, owner, type, amount, counterparty and
\* gateway reference; the one thing a step changes in a row is the status of a deposit.
\* The same holds of what an open transaction has written against the committed ledger
Thm_C37 ==
    [][/\ \A t \in transactions :
            \/ t \in transactions'
            \/ /\ t.transaction_type = "deposit"
               /\ \E t2 \in transactions' : SameButStatus(t, t2)
       /\ Cardinality(transactions') >= Cardinality(transactions)
       /\ \A p \in Procs :
            lock'[p] \in {"reserved", "pending"}
               => \A t \in transactions' :
                    \/ t \in work'[p].transactions
                    \/ /\ t.transaction_type = "deposit"
                       /\ \E t2 \in work'[p].transactions : SameButStatus(t, t2)]_vars

\* a confirmation has turned a generated deposit into success in a ledger that holds the
\* two records of a transfer as well
Wit_C37 ==
    /\ \E p \in Procs : Ended(p, "confirm", "ok") /\ op[p].ref \in Refs
                         /\ Success(transactions, op[p].ref)
    /\ \E t \in transactions : t.transaction_type = "transfer" /\ t.reference[2] = "-RECV"
    /\ Cardinality(transactions) = 4

\* the rows the call of request p works on: the wallets of a transfer's sender and
\* recipient; the deposit row of a confirmation and the wallet of its owner; the wallet
\* of a depositor and the row the deposit adds
Touches(p) ==
    IF op[p].kind = "transfer"
    THEN {<<"wallet", op[p].user>>, <<"wallet", ProfileByWalletNumber(op[p].wn)>>}
    ELSE IF op[p].kind = "confirm"
    THEN {<<"transaction", op[p].ref>>}
            \cup {<<"wallet", t.user>> : t \in DepositRows(transactions, op[p].ref)}
    ELSE IF op[p].kind = "deposit"
    THEN {<<"wallet", op[p].user>>}
            \cup (IF loc[p].reference = Null THEN {}
                  ELSE {<<"transaction", loc[p].reference>>})
    ELSE {}

\* C38: a transfer or a confirmation is refused by the database, or kept waiting by it,
\* only on account of a request that holds the write lock and works on one of the same
\* rows: requests on disjoint wallets never hold each other up
CX_C38 ==
    [][\A p \in Procs :
         /\ (/\ op[p].kind \in {"transfer", "confirm"}
             /\ pc[p] \in {"t_checks", "t_debit", "t_credit", "d_credit"}
             /\ pc'[p] = "done" /\ result'[p] = "OperationalError")
               => \E q \in Procs \ {p} :
                     /\ lock[q] \in {"reserved", "pending"}
                     /\ Touches(p) \cap Touches(q) # {}
         /\ (pc[p] = "d_txn" /\ ReadBlocked(p))
               => \E q \in Procs \ {p} :
                     /\ lock[q] = "pending"
                     /\ Touches(p) \cap Touches(q) # {}]_vars

\* the sum of the balances of a wallets table
RECURSIVE SumBalances(_)
SumBalances(w) ==
    IF DOMAIN w = {} THEN 0
    ELSE LET u == CHOOSE x \in DOMAIN w : TRUE
         IN w[u] + SumBalances([x \in DOMAIN w \ {u} |-> w[x]])

\* the deposits recorded as success in rows
SuccessDeposits(rows) ==
    {t \in rows : t.transaction_type = "deposit" /\ t.status = "success"}

\* C39: in every committed state the balances of all wallets add up to the amounts of
\* the deposits whose status is success; the credit committed for a deposit is its
\* amount when its status is success and nothing while it is not; and the step that
\* commits a transfer leaves the sum of the balances as it was
Thm_C39 ==
    [][/\ SumBalances(wallets) = SumAmounts(SuccessDeposits(transactions))
       /\ \A t \in transactions :
            t.transaction_type = "deposit"
               => credited[t.reference[1]] = IF t.status = "success" THEN t.amount ELSE 0
       /\ \A p \in Procs :
            (pc[p] = "commit" /\ op[p].kind = "transfer" /\ pc'[p] = "done")
               => SumBalances(wallets') = SumBalances(wallets)]_vars

\* a confirmation holds its credit and the new status uncommitted: the committed state
\* shows the deposit pending and the wallet not credited, beside the records of a transfer
Wit_C39 ==
    \E p \in Procs :
        /\ pc[p] = "commit" /\ op[p].kind = "confirm"
        /\ work[p].wallets[loc[p].tuser] = wallets[loc[p].tuser] + loc[p].tamount
        /\ \E t \in DepositRows(transactions, op[p].ref) : t.status = "pending"
        /\ \E t \in transactions : t.transaction_type = "transfer"

\* C40: no step of initiate_deposit changes the balance of a wallet (the wallet row it
\* may insert holds 0), whether the gateway call succeeds or fails; a balance changes
\* only in the step that commits a confirmation or a transfer; and no credit is
\* committed for a deposit that is pending
Thm_C40 ==
    [][/\ \A p \in Procs :
            (op[p].kind = "deposit" /\ pc'[p] # pc[p])
               => \A u \in Users : BalanceOf(wallets', u) = BalanceOf(wallets, u)
       /\ (\E u \in Users : BalanceOf(wallets', u) # BalanceOf(wallets, u))
            => \E p \in Procs :
                  /\ pc[p] = "commit" /\ pc'[p] = "done"
                  /\ op[p].kind \in {"confirm", "transfer"}
       /\ \A t \in transactions :
            (t.transaction_type = "deposit" /\ t.status = "pending")
               => credited[t.reference[1]] = 0]_vars

\* user 2 has initiated a deposit of 2 that nobody has confirmed and holds nothing, and
\* another initiation has failed at the gateway
Wit_C40 ==
    /\ Ended("p1", "deposit", "ok")
    /\ Ended("p2", "deposit", "PaystackAPIException")
    /\ \E t \in transactions :
         t.transaction_type = "deposit" /\ t.status = "pending" /\ t.user = 2 /\ t.amount = 2
    /\ 2 \in DOMAIN wallets /\ wallets[2] = 0

====
